---- MODULE Spec2Model ----
(***************************************************************************)
(* Model of the RE+ exhibitor scraper: src/exibitor.py (the resumable      *)
(* pipeline) and src/boot.py (the one-shot script that writes the same     *)
(* progress and final files).                                              *)
(*                                                                         *)
(* A link (absolute detail-page URL) is a natural number.  A CSV file is   *)
(* modelled by its content: whether the five-column header line is there   *)
(* and the sequence of its rows.  A process is one run of main(); it can   *)
(* be killed between any two steps, and a file write is two steps, the     *)
(* open(..., 'w') that truncates and the write of the content.             *)
(***************************************************************************)
EXTENDS Integers, Sequences, FiniteSets, TLC

\* ------------------------------------------------------------------ bounds
\* TOTAL_PAGES is 53 in the source; the model scales it down.
TOTAL_PAGES == 4
\* Number of links on one listing page (25 on the site).
PerPage == 5
\* Number of process runs (of either script) in one behaviour.
MaxRuns == 3
\* boot.py, the first version of the scraper, runs only among the first
\* MaxBootRuns runs of a behaviour.
MaxBootRuns == 1

\* ------------------------------------------------- program constants
\* exibitor.py:234  if (i + 1) % 10 == 0
BatchSize == 10
\* boot.py:169  if (i + 1) % 50 == 0
BootBatchSize == 50

NA == "N/A"
\* The float NaN pandas holds for a missing cell; not a string of the page.
NaN == "<float nan>"
\* Strings pandas.read_csv turns into NaN (its default na_values, restricted
\* to the strings of the model).
NA_VALUES == {"", "N/A"}

\* ------------------------------------------------------ sequence helpers
RECURSIVE SelectSeqBy_reversed(_, _)
\* Faulty variant of SelectSeqBy: the kept elements come out in reverse order.
SelectSeqBy_reversed(s, drop) ==
    IF s = <<>> THEN <<>>
    ELSE IF Head(s) \in drop THEN SelectSeqBy_reversed(Tail(s), drop)
         ELSE SelectSeqBy_reversed(Tail(s), drop) \o <<Head(s)>>

RECURSIVE SelectSeqBy(_, _)
\* [x for x in s if x \notin drop]
SelectSeqBy(s, drop) ==
    IF s = <<>> THEN <<>>
    ELSE IF Head(s) \in drop THEN SelectSeqBy(Tail(s), drop)
         ELSE <<Head(s)>> \o SelectSeqBy(Tail(s), drop)

Range(s) == {s[k] : k \in 1..Len(s)}

Contains(s, x) == \E k \in 1..Len(s) : s[k] = x

NoDup(s) == \A a, b \in 1..Len(s) : s[a] = s[b] => a = b

\* ------------------------------------------------------------ the web site
\* The site is fixed during a behaviour: `overlap` says whether the last
\* exhibitor of a listing page is listed again as the first of the next
\* page, `failing` is the set of detail pages whose fetch fails.

\* The first link of listing page p.
FirstLink(p, overlap) == (p - 1) * (IF overlap THEN PerPage - 1 ELSE PerPage) + 1

\* An element of a listing page: href (0: no href attribute), whether the
\* href contains 'exhibitor-details', and which of the selectors 2..4 match
\* it.  Selector 1, a[href*="exhibitor-details"], matches by the href.
Anchor(h, m, s) == [href |-> h, marker |-> m, sels |-> s]

\* The parsed document of listing page p: one anchor per exhibitor, the
\* first exhibitor's name linked a second time, a navigation anchor that is
\* no detail link and an element without href.
ListingSoup(p, overlap) ==
    LET f == FirstLink(p, overlap)
    IN  <<Anchor(f, TRUE, {2})>>
        \o [k \in 1..(PerPage - 1) |-> Anchor(f + k, TRUE, {})]
        \o <<Anchor(f, TRUE, {3}), Anchor(900 + p, FALSE, {4}), Anchor(0, FALSE, {3})>>

\* soup.select(selector): the elements matching, in document order.
SoupSelect(soup, selector) ==
    SelectSeq(soup, LAMBDA e : IF selector = 1 THEN e.marker ELSE selector \in e.sels)

RECURSIVE AppendNew(_, _)
\* exibitor.py:81-86, the inner loop over the elements of one selector.
AppendNew(links, elements) ==
    IF elements = <<>> THEN links
    ELSE LET e == Head(elements)
             next == IF e.href # 0 /\ e.marker /\ ~Contains(links, e.href)
                     THEN Append(links, e.href) ELSE links
         IN  AppendNew(next, Tail(elements))

RECURSIVE LinksOfSelectors(_, _, _)
\* exibitor.py:79-86, the loop over the selectors.
LinksOfSelectors(soup, selectors, links) ==
    IF selectors = <<>> THEN links
    ELSE LinksOfSelectors(soup, Tail(selectors),
                          AppendNew(links, SoupSelect(soup, Head(selectors))))

\* Faulty variant of get_exhibitor_links: a failed fetch still returns a link
\* of the page.
get_exhibitor_links_keeps_partial(p, overlap, ok) ==
    IF ok THEN LinksOfSelectors(ListingSoup(p, overlap), <<1, 2, 3, 4>>, <<>>)
    ELSE <<FirstLink(p, overlap)>>

\* get_exhibitor_links(driver, page_url): ok is whether driver.get and the
\* wait for the marker element succeed; any exception returns [].
get_exhibitor_links(p, overlap, ok) ==
    IF ok THEN LinksOfSelectors(ListingSoup(p, overlap), <<1, 2, 3, 4>>, <<>>)
    ELSE <<>>

\* -------------------------------------------------------- detail pages
\* Text of the first element a selector matches: "<none>" when no element
\* matches, " " for whitespace only.
NoElement == "<none>"

Strip(t) ==
    CASE t = " " -> ""
      [] t = " Acme Solar " -> "Acme Solar"
      [] OTHER -> t

\* The parsed detail page of link l.  Four kinds of markup, by l % 4.
DetailSoup(l) ==
    CASE l % 4 = 1 ->
           [name |-> <<" Acme Solar ", "Acme (title)", NoElement>>,
            booth |-> <<"B-101", NoElement, "B-101">>,
            web |-> <<"http://acme.example", NoElement, NoElement, NoElement>>,
            contact |-> <<<<"info@acme.example">>, <<>>, <<>>, <<>>, <<>>>>]
      [] l % 4 = 2 ->
           [name |-> <<NoElement, "Borealis", NoElement>>,
            booth |-> <<" ", NoElement, "Hall C">>,
            web |-> <<NoElement, "/8_0/borealis", NoElement, NoElement>>,
            contact |-> <<<<>>, <<" ">>, <<>>, <<"12 Main St">>, <<"b@borealis.example">>>>]
      [] l % 4 = 3 ->
           [name |-> <<NoElement, " ", NoElement>>,
            booth |-> <<NoElement, NoElement, "Tent 3">>,
            web |-> <<NoElement, NoElement, NoElement, NoElement>>,
            contact |-> <<<<>>, <<>>, <<>>, <<>>, <<>>>>]
      [] OTHER ->
           [name |-> <<NoElement, NoElement, "Delta Wind">>,
            booth |-> <<NoElement, "Outdoor 7", NoElement>>,
            web |-> <<NoElement, NoElement, NoElement, "http://delta.example">>,
            contact |-> <<<<>>, <<>>, <<"sales@delta.example">>, <<>>, <<>>>>]

\* Faulty variant of extract_with_fallback: only the first selector is tried.
extract_with_fallback_first_only(texts) ==
    IF texts # <<>> /\ Head(texts) # NoElement /\ Strip(Head(texts)) # ""
    THEN Strip(Head(texts))
    ELSE NA

RECURSIVE extract_with_fallback(_)
\* exibitor.py:126-132; texts[k] is the text of select_one(selectors[k]).
extract_with_fallback(texts) ==
    IF texts = <<>> THEN NA
    ELSE IF Head(texts) # NoElement /\ Strip(Head(texts)) # ""
         THEN Strip(Head(texts))
         ELSE extract_with_fallback(Tail(texts))

\* urljoin("https://re25.mapyourshow.com", href) on the hrefs of the model.
UrlJoinOrigin(href) ==
    CASE href = "/8_0/borealis" -> "https://re25.mapyourshow.com/8_0/borealis"
      [] OTHER -> href

StartsWithHttp(href) == href \in {"http://acme.example", "http://delta.example"}

RECURSIVE extract_website(_)
\* exibitor.py:134-152; hrefs[k] is the href of select_one(selectors[k]).
extract_website(hrefs) ==
    IF hrefs = <<>> THEN NA
    ELSE IF Head(hrefs) # NoElement /\ Head(hrefs) # ""
         THEN IF StartsWithHttp(Head(hrefs)) THEN Head(hrefs)
              ELSE UrlJoinOrigin(Head(hrefs))
         ELSE extract_website(Tail(hrefs))

RECURSIVE Flatten(_)
Flatten(ss) == IF ss = <<>> THEN <<>> ELSE Head(ss) \o Flatten(Tail(ss))

\* The texts joined by ' | ', on the texts of the model.
JoinBar(parts) ==
    CASE parts = <<>> -> ""
      [] Len(parts) = 1 -> parts[1]
      [] parts = <<"12 Main St", "b@borealis.example">> ->
           "12 Main St | b@borealis.example"
      [] OTHER -> "<joined>"

\* exibitor.py:154-171; texts[k] are the texts of soup.select(selectors[k]).
extract_contact_info(texts) ==
    LET found == SelectSeq([k \in 1..Len(Flatten(texts)) |-> Strip(Flatten(texts)[k])],
                           LAMBDA t : t # "")
    IN  IF found = <<>> THEN NA ELSE JoinBar(found)

Record(n, w, b, c, u) == [name |-> n, web |-> w, booth |-> b, contact |-> c, url |-> u]

\* scrape_exhibitor_detail(driver, detail_url): exibitor.py:95-124.
scrape_exhibitor_detail(l, failing) ==
    IF l \in failing
    THEN Record(NA, NA, NA, NA, l)
    ELSE LET soup == DetailSoup(l)
         IN  Record(extract_with_fallback(soup.name), extract_website(soup.web),
                    extract_with_fallback(soup.booth), extract_contact_info(soup.contact),
                    l)

\* ------------------------------------------------------ files and frames
NoLinksFile == [exists |-> FALSE, lines |-> <<>>]
NoCsvFile == [exists |-> FALSE, cols |-> FALSE, rows |-> <<>>]
\* A file just opened with mode 'w': it exists and has no bytes.
TruncatedCsv == [exists |-> TRUE, cols |-> FALSE, rows |-> <<>>]

\* pd.DataFrame(): no columns, no rows.
EmptyFrame == [cols |-> FALSE, rows |-> <<>>]

\* Faulty variant of Concat: the new record replaces the accumulated ones.
Concat_replace(df, data) == [cols |-> TRUE, rows |-> <<data>>]

\* pd.concat([df, pd.DataFrame([data])], ignore_index=True)
Concat(df, data) == [cols |-> TRUE, rows |-> Append(df.rows, data)]

ToCsvCell(v) == IF v = NaN THEN "" ELSE v
ReadCsvCell(s) == IF s \in NA_VALUES THEN NaN ELSE s

ToCsvRow(r) ==
    Record(ToCsvCell(r.name), ToCsvCell(r.web), ToCsvCell(r.booth), ToCsvCell(r.contact), r.url)
ReadCsvRow(r) ==
    Record(ReadCsvCell(r.name), ReadCsvCell(r.web), ReadCsvCell(r.booth),
           ReadCsvCell(r.contact), r.url)

\* df.to_csv(file, index=False): the content of the written file.
to_csv(df) ==
    [exists |-> TRUE, cols |-> df.cols, rows |-> [k \in 1..Len(df.rows) |-> ToCsvRow(df.rows[k])]]

\* pd.read_csv(file) of a file with a header line.
read_csv(file) ==
    [cols |-> TRUE, rows |-> [k \in 1..Len(file.rows) |-> ReadCsvRow(file.rows[k])]]

Urls(rows) == [k \in 1..Len(rows) |-> rows[k].url]

\* Faulty variant of get_existing_data: no except around read_csv, a file that does
\* not parse is read as a frame with the columns and no rows.
get_existing_data_no_except(file) ==
    IF file.exists
    THEN <<Range(Urls(read_csv(file).rows)), read_csv(file)>>
    ELSE <<{}, EmptyFrame>>

\* get_existing_data(filename): <<scraped_urls, exhibitors_df>>.  read_csv
\* raises on a file without a header line, and the except returns empty.
get_existing_data(file) ==
    IF file.exists /\ file.cols
    THEN <<Range(Urls(read_csv(file).rows)), read_csv(file)>>
    ELSE <<{}, EmptyFrame>>

\* Faulty variant of load_links_from_file: the last line is not read.
load_links_from_file_drops_last(file) ==
    IF file.exists
    THEN [loaded |-> TRUE,
          links |-> SubSeq(file.lines, 1, IF Len(file.lines) = 0 THEN 0 ELSE Len(file.lines) - 1)]
    ELSE [loaded |-> FALSE, links |-> <<>>]

\* load_links_from_file(filename): None is modelled by loaded = FALSE.
load_links_from_file(file) ==
    IF file.exists THEN [loaded |-> TRUE, links |-> file.lines]
    ELSE [loaded |-> FALSE, links |-> <<>>]

\* Faulty variant of FilterScraped: the scraped urls are not filtered out.
FilterScraped_keep_all(links, scraped) == links

\* exibitor.py:211
FilterScraped(links, scraped) == SelectSeqBy(links, scraped)

RECURSIVE ScrapeAll(_, _)
\* The records of a run that scrapes every link of `links` in order.
ScrapeAll(links, failing) ==
    IF links = <<>> THEN <<>>
    ELSE <<scrape_exhibitor_detail(Head(links), failing)>> \o ScrapeAll(Tail(links), failing)

\* ------------------------------------------------------------------ state
VARIABLES
    overlap,             \* the site: listing pages overlap by one exhibitor
    failing,             \* the site: detail pages whose fetch fails
    linksFile,           \* LINKS_FILE
    progressFile,        \* PROGRESS_FILE
    finalFile,           \* FINAL_FILE
    script,              \* which main() the process runs: "exibitor", "boot", "none"
    pc,                  \* the position of the process in main()
    exit,                \* "never", "running", "ok", "fail", "killed"
    driver,              \* a fetch handle exists
    page,                \* the next listing page of the collection loop
    all_exhibitor_links,
    scraped_urls,
    exhibitors_df,
    urls_to_scrape,
    i,                   \* number of links the scrape loop has processed
    runs,                \* number of runs started
    run,                 \* what this run has done (history)
    prev                 \* how the previous run ended (history)

files == <<linksFile, progressFile, finalFile>>
site == <<overlap, failing>>
memory == <<driver, page, all_exhibitor_links, scraped_urls, exhibitors_df, urls_to_scrape, i>>
vars == <<overlap, failing, linksFile, progressFile, finalFile, script, pc, exit, driver,
          page, all_exhibitor_links, scraped_urls, exhibitors_df, urls_to_scrape, i,
          runs, run, prev>>

\* The sets of failing detail pages a behaviour chooses from.
FailingChoices == {{}, {2, 11}}

NoRun == [startLinks |-> NoLinksFile, startProgress |-> NoCsvFile, startFinal |-> NoCsvFile,
          phase |-> "NONE", cached |-> FALSE, listing |-> <<>>, listingOk |-> <<>>, fetched |-> <<>>, handles |-> 0,
          linksWrites |-> 0, progressWrites |-> 0, finalWrites |-> 0,
          loaded |-> EmptyFrame, requestsAtFail |-> 0]

NoPrev == [exit |-> "never", pc |-> "idle", phase |-> "NONE", i |-> 0, fetched |-> {},
           urlsBefore |-> {}]

Init ==
    /\ overlap \in BOOLEAN
    /\ failing \in FailingChoices
    /\ linksFile = NoLinksFile
    /\ progressFile = NoCsvFile
    /\ finalFile = NoCsvFile
    /\ script = "none"
    /\ pc = "idle"
    /\ exit = "never"
    /\ driver = FALSE
    /\ page = 1
    /\ all_exhibitor_links = <<>>
    /\ scraped_urls = {}
    /\ exhibitors_df = EmptyFrame
    /\ urls_to_scrape = <<>>
    /\ i = 0
    /\ runs = 0
    /\ run = NoRun
    /\ prev = NoPrev

\* What the history keeps of a run when the next one starts or it is killed:
\* how it ended and, of a run of exibitor.py killed after it loaded the
\* progress, where it was and what it had fetched.
Summary(how) ==
    IF how = "killed" /\ script = "exibitor" /\ run.phase \in {"SCRAPING", "DONE", "NOTHING_PENDING"}
    THEN [exit |-> how, pc |-> pc, phase |-> run.phase, i |-> i,
          fetched |-> Range(run.fetched),
          urlsBefore |-> Range(Urls(run.startProgress.rows))]
    ELSE [exit |-> how, pc |-> IF how = "killed" THEN pc ELSE "idle",
          phase |-> IF how = "killed" THEN run.phase ELSE "NONE", i |-> 0,
          fetched |-> {}, urlsBefore |-> {}]

FreshRun ==
    [NoRun EXCEPT !.startLinks = linksFile, !.startProgress = progressFile,
                  !.startFinal = finalFile]

\* ------------------------------------------------- exibitor.py main()
\* exibitor.py:173-180, 202-203: the process starts and loads the link cache.
Start ==
    /\ pc = "idle"
    /\ runs < MaxRuns
    /\ runs' = runs + 1
    /\ script' = "exibitor"
    /\ exit' = "running"
    /\ prev' = IF exit = "killed" THEN prev ELSE Summary(exit)
    /\ LET got == load_links_from_file(linksFile)
       IN  /\ all_exhibitor_links' = got.links
           /\ pc' = IF got.loaded THEN "load_progress" ELSE "setup_discovery"
           /\ run' = [FreshRun EXCEPT !.cached = got.loaded,
                                       !.phase = IF got.loaded THEN "LINKS_READY" ELSE "INIT"]
    /\ driver' = FALSE
    /\ page' = 1
    /\ scraped_urls' = {}
    /\ exhibitors_df' = EmptyFrame
    /\ urls_to_scrape' = <<>>
    /\ i' = 0
    /\ UNCHANGED <<files, site>>

\* exibitor.py:182-183: setup_driver() for link discovery; webdriver.Chrome
\* raises when the browser cannot be started and main() ends with it.
SetupDriverDiscovery ==
    /\ script = "exibitor" /\ pc = "setup_discovery"
    /\ \E ok \in BOOLEAN :
         IF ok
         THEN /\ driver' = TRUE
              /\ pc' = "collect"
              /\ exit' = exit
              /\ run' = [run EXCEPT !.handles = @ + 1]
         ELSE /\ driver' = FALSE
              /\ pc' = "idle"
              /\ exit' = "fail"
              /\ run' = [run EXCEPT !.requestsAtFail = Len(run.listing) + Len(run.fetched)]
    /\ UNCHANGED <<files, site, script, page, all_exhibitor_links, scraped_urls,
                   exhibitors_df, urls_to_scrape, i, runs, prev>>

\* exibitor.py:192-196: one iteration of the link collection loop.
CollectPage ==
    /\ script = "exibitor" /\ pc = "collect"
    /\ page <= TOTAL_PAGES
    /\ \E ok \in BOOLEAN :
         /\ all_exhibitor_links' =
                all_exhibitor_links \o get_exhibitor_links(page, overlap, ok)
         /\ run' = [run EXCEPT !.listing = Append(@, page), !.listingOk = Append(@, ok)]
    /\ page' = page + 1
    /\ pc' = IF page = TOTAL_PAGES THEN "save_links" ELSE "collect"
    /\ UNCHANGED <<files, site, script, exit, driver, scraped_urls, exhibitors_df,
                   urls_to_scrape, i, runs, prev>>

\* exibitor.py:34: open(filename, 'w') creates or truncates the link cache.
SaveLinksOpen ==
    /\ script = "exibitor" /\ pc = "save_links"
    /\ linksFile' = [exists |-> TRUE, lines |-> <<>>]
    /\ pc' = "save_links_write"
    /\ UNCHANGED <<progressFile, finalFile, site, script, exit, memory, runs, run, prev>>

\* exibitor.py:35-36, 199-201: the lines are written, the file is closed and
\* the discovery driver quits.  The buffered writer may flush a prefix of the
\* lines before the rest: `upto` is the number of lines on disk after this
\* step.
SaveLinksWrite ==
    /\ script = "exibitor" /\ pc = "save_links_write"
    /\ \E upto \in {Len(all_exhibitor_links) \div 2, Len(all_exhibitor_links)} :
         /\ upto > Len(linksFile.lines) \/ upto = Len(all_exhibitor_links)
         /\ linksFile' = [exists |-> TRUE, lines |-> SubSeq(all_exhibitor_links, 1, upto)]
         /\ IF upto = Len(all_exhibitor_links)
            THEN /\ pc' = "load_progress"
                 /\ driver' = FALSE
                 /\ run' = [run EXCEPT !.linksWrites = @ + 1, !.phase = "LINKS_READY"]
            ELSE UNCHANGED <<pc, driver, run>>
    /\ UNCHANGED <<progressFile, finalFile, site, script, exit, page, all_exhibitor_links,
                   scraped_urls, exhibitors_df, urls_to_scrape, i, runs, prev>>

\* exibitor.py:205-212: load the progress and compute the pending links.
LoadProgress ==
    /\ script = "exibitor" /\ pc = "load_progress"
    /\ LET got == get_existing_data(progressFile)
           pending == FilterScraped(all_exhibitor_links, got[1])
       IN  /\ scraped_urls' = got[1]
           /\ exhibitors_df' = got[2]
           /\ urls_to_scrape' = pending
           /\ run' = [run EXCEPT !.loaded = got[2],
                                  !.phase = IF Len(pending) = 0 THEN "NOTHING_PENDING"
                                            ELSE "SCRAPING"]
           /\ pc' = IF Len(pending) = 0 THEN "nothing_pending" ELSE "setup_scrape"
    /\ UNCHANGED <<files, site, script, exit, driver, page, all_exhibitor_links, i, runs, prev>>

\* Faulty variant of NothingPending: the final file is opened for writing whether
\* or not it exists.
NothingPending_always_writes ==
    /\ script = "exibitor" /\ pc = "nothing_pending"
    /\ finalFile' = TruncatedCsv
    /\ pc' = "nothing_pending_write"
    /\ UNCHANGED <<linksFile, progressFile, site, script, exit, memory, runs, run, prev>>

\* exibitor.py:214-220: nothing is pending; the final file is opened for
\* writing only if it does not exist, otherwise main() returns.
NothingPending ==
    /\ script = "exibitor" /\ pc = "nothing_pending"
    /\ IF ~finalFile.exists
       THEN /\ finalFile' = TruncatedCsv
            /\ pc' = "nothing_pending_write"
            /\ exit' = exit
       ELSE /\ finalFile' = finalFile
            /\ pc' = "idle"
            /\ exit' = "ok"
    /\ UNCHANGED <<linksFile, progressFile, site, script, memory, runs, run, prev>>

\* exibitor.py:218-220: exhibitors_df.to_csv(FINAL_FILE) and return.
NothingPendingWrite ==
    /\ script = "exibitor" /\ pc = "nothing_pending_write"
    /\ finalFile' = to_csv(exhibitors_df)
    /\ run' = [run EXCEPT !.finalWrites = @ + 1]
    /\ pc' = "idle"
    /\ exit' = "ok"
    /\ UNCHANGED <<linksFile, progressFile, site, script, memory, runs, prev>>

\* exibitor.py:223: setup_driver() for the detail pages.
SetupDriverScrape ==
    /\ script = "exibitor" /\ pc = "setup_scrape"
    /\ \E ok \in BOOLEAN :
         IF ok
         THEN /\ driver' = TRUE
              /\ pc' = "scrape"
              /\ exit' = exit
              /\ run' = [run EXCEPT !.handles = @ + 1]
         ELSE /\ driver' = FALSE
              /\ pc' = "idle"
              /\ exit' = "fail"
              /\ run' = [run EXCEPT !.requestsAtFail = Len(run.listing) + Len(run.fetched)]
    /\ UNCHANGED <<files, site, script, page, all_exhibitor_links, scraped_urls,
                   exhibitors_df, urls_to_scrape, i, runs, prev>>

\* Faulty variant of AfterRecord: the checkpoint comes one record early.
AfterRecord_one_early(n, total) ==
    IF (n + 1) % BatchSize = 0 THEN "checkpoint"
    ELSE IF n = total THEN "final_save" ELSE "scrape"

\* Where the scrape loop goes after its n-th record.
AfterRecord(n, total) ==
    IF n % BatchSize = 0 THEN "checkpoint"
    ELSE IF n = total THEN "final_save" ELSE "scrape"

\* exibitor.py:226-231: one detail page is fetched and its record appended.
ScrapeOne ==
    /\ script = "exibitor" /\ pc = "scrape"
    /\ i < Len(urls_to_scrape)
    /\ LET link == urls_to_scrape[i + 1]
       IN  /\ exhibitors_df' = Concat(exhibitors_df, scrape_exhibitor_detail(link, failing))
           /\ run' = [run EXCEPT !.fetched = Append(@, link)]
    /\ i' = i + 1
    /\ pc' = AfterRecord(i + 1, Len(urls_to_scrape))
    /\ UNCHANGED <<files, site, script, exit, driver, page, all_exhibitor_links,
                   scraped_urls, urls_to_scrape, runs, prev>>

\* exibitor.py:235: to_csv opens PROGRESS_FILE for writing, which truncates it.
CheckpointOpen ==
    /\ script = "exibitor" /\ pc = "checkpoint"
    /\ progressFile' = TruncatedCsv
    /\ pc' = "checkpoint_write"
    /\ UNCHANGED <<linksFile, finalFile, site, script, exit, memory, runs, run, prev>>

\* exibitor.py:235-238: the whole frame is written and the loop goes on.
CheckpointWrite ==
    /\ script = "exibitor" /\ pc = "checkpoint_write"
    /\ progressFile' = to_csv(exhibitors_df)
    /\ run' = [run EXCEPT !.progressWrites = @ + 1]
    /\ pc' = IF i = Len(urls_to_scrape) THEN "final_save" ELSE "scrape"
    /\ UNCHANGED <<linksFile, finalFile, site, script, exit, memory, runs, prev>>

\* exibitor.py:241: to_csv opens FINAL_FILE for writing.
FinalSaveOpen ==
    /\ script = "exibitor" /\ pc = "final_save"
    /\ finalFile' = TruncatedCsv
    /\ run' = [run EXCEPT !.phase = "DONE"]
    /\ pc' = "final_save_write"
    /\ UNCHANGED <<linksFile, progressFile, site, script, exit, memory, runs, prev>>

\* Faulty variant of FinalSaveWrite: the progress file is written along with
\* the final file.
FinalSaveWrite_also_progress ==
    /\ script = "exibitor" /\ pc = "final_save_write"
    /\ finalFile' = to_csv(exhibitors_df)
    /\ progressFile' = to_csv(exhibitors_df)
    /\ run' = [run EXCEPT !.finalWrites = @ + 1]
    /\ driver' = FALSE
    /\ pc' = "idle"
    /\ exit' = "ok"
    /\ UNCHANGED <<linksFile, site, script, page, all_exhibitor_links,
                   scraped_urls, exhibitors_df, urls_to_scrape, i, runs, prev>>

\* exibitor.py:241-244: the final file is written, the driver quits, main()
\* returns.
FinalSaveWrite ==
    /\ script = "exibitor" /\ pc = "final_save_write"
    /\ finalFile' = to_csv(exhibitors_df)
    /\ run' = [run EXCEPT !.finalWrites = @ + 1]
    /\ driver' = FALSE
    /\ pc' = "idle"
    /\ exit' = "ok"
    /\ UNCHANGED <<linksFile, progressFile, site, script, page, all_exhibitor_links,
                   scraped_urls, exhibitors_df, urls_to_scrape, i, runs, prev>>

\* ----------------------------------------------------- boot.py main()
\* pd.DataFrame(exhibitors_data): a frame without columns for an empty list.
FrameOf(rows) == IF rows = <<>> THEN EmptyFrame ELSE [cols |-> TRUE, rows |-> rows]

\* boot.py:141-143: the process starts; boot.py reads no file.
BootStart ==
    /\ pc = "idle"
    /\ runs < MaxRuns
    /\ runs < MaxBootRuns
    /\ runs' = runs + 1
    /\ script' = "boot"
    /\ exit' = "running"
    /\ prev' = IF exit = "killed" THEN prev ELSE Summary(exit)
    /\ run' = [FreshRun EXCEPT !.phase = "INIT"]
    /\ pc' = "boot_setup"
    /\ driver' = FALSE
    /\ page' = 1
    /\ all_exhibitor_links' = <<>>
    /\ scraped_urls' = {}
    /\ exhibitors_df' = EmptyFrame
    /\ urls_to_scrape' = <<>>
    /\ i' = 0
    /\ UNCHANGED <<files, site>>

\* boot.py:143: setup_driver().
BootSetupDriver ==
    /\ script = "boot" /\ pc = "boot_setup"
    /\ \E ok \in BOOLEAN :
         IF ok
         THEN /\ driver' = TRUE
              /\ pc' = "boot_collect"
              /\ exit' = exit
              /\ run' = [run EXCEPT !.handles = @ + 1]
         ELSE /\ driver' = FALSE
              /\ pc' = "idle"
              /\ exit' = "fail"
              /\ run' = run
    /\ UNCHANGED <<files, site, script, page, all_exhibitor_links, scraped_urls,
                   exhibitors_df, urls_to_scrape, i, runs, prev>>

\* boot.py:153-157: one iteration of the link collection loop; after the
\* last page the scrape loop starts, or the final save when no link was found.
BootCollectPage ==
    /\ script = "boot" /\ pc = "boot_collect"
    /\ page <= TOTAL_PAGES
    /\ \E ok \in BOOLEAN :
         LET links == all_exhibitor_links \o get_exhibitor_links(page, overlap, ok)
         IN  /\ all_exhibitor_links' = links
             /\ pc' = IF page < TOTAL_PAGES THEN "boot_collect"
                      ELSE IF Len(links) = 0 THEN "boot_final_save" ELSE "boot_scrape"
             /\ run' = [run EXCEPT !.listing = Append(@, page), !.listingOk = Append(@, ok)]
    /\ page' = page + 1
    /\ UNCHANGED <<files, site, script, exit, driver, scraped_urls, exhibitors_df,
                   urls_to_scrape, i, runs, prev>>

\* boot.py:163-174: one detail page is fetched and its record appended; every
\* 50 records the list is written to the progress file (open and write in
\* this one step).
BootScrapeOne ==
    /\ script = "boot" /\ pc = "boot_scrape"
    /\ i < Len(all_exhibitor_links)
    /\ LET link == all_exhibitor_links[i + 1]
           rows == Append(exhibitors_df.rows, scrape_exhibitor_detail(link, failing))
       IN  /\ exhibitors_df' = FrameOf(rows)
           /\ run' = [run EXCEPT !.fetched = Append(@, link), !.phase = "SCRAPING"]
           /\ progressFile' = IF (i + 1) % BootBatchSize = 0 THEN to_csv(FrameOf(rows))
                              ELSE progressFile
    /\ i' = i + 1
    /\ pc' = IF i + 1 = Len(all_exhibitor_links) THEN "boot_final_save" ELSE "boot_scrape"
    /\ UNCHANGED <<linksFile, finalFile, site, script, exit, driver, page,
                   all_exhibitor_links, scraped_urls, urls_to_scrape, runs, prev>>

\* boot.py:178: to_csv opens re25_exhibitors_complete.csv for writing.
BootFinalSaveOpen ==
    /\ script = "boot" /\ pc = "boot_final_save"
    /\ finalFile' = TruncatedCsv
    /\ run' = [run EXCEPT !.phase = "DONE"]
    /\ pc' = "boot_final_save_write"
    /\ UNCHANGED <<linksFile, progressFile, site, script, exit, memory, runs, prev>>

\* boot.py:177-181: the final file is written, the driver quits.
BootFinalSaveWrite ==
    /\ script = "boot" /\ pc = "boot_final_save_write"
    /\ finalFile' = to_csv(FrameOf(exhibitors_df.rows))
    /\ run' = [run EXCEPT !.finalWrites = @ + 1]
    /\ driver' = FALSE
    /\ pc' = "idle"
    /\ exit' = "ok"
    /\ UNCHANGED <<linksFile, progressFile, site, script, page, all_exhibitor_links,
                   scraped_urls, exhibitors_df, urls_to_scrape, i, runs, prev>>

\* The process is terminated from outside (signal, crash) between two steps:
\* its memory is gone, the files stay as they are.
Kill ==
    /\ pc # "idle"
    /\ prev' = Summary("killed")
    /\ pc' = "idle"
    /\ exit' = "killed"
    /\ script' = "none"
    /\ driver' = FALSE
    /\ page' = 1
    /\ all_exhibitor_links' = <<>>
    /\ scraped_urls' = {}
    /\ exhibitors_df' = EmptyFrame
    /\ urls_to_scrape' = <<>>
    /\ i' = 0
    /\ run' = NoRun
    /\ UNCHANGED <<files, site, runs>>

Next ==
    \/ Start
    \/ SetupDriverDiscovery
    \/ CollectPage
    \/ SaveLinksOpen
    \/ SaveLinksWrite
    \/ LoadProgress
    \/ NothingPending
    \/ NothingPendingWrite
    \/ SetupDriverScrape
    \/ ScrapeOne
    \/ CheckpointOpen
    \/ CheckpointWrite
    \/ FinalSaveOpen
    \/ FinalSaveWrite
    \/ Kill

Spec == Init /\ [][Next]_vars

\* Both scripts of the repository run in the same directory.
NextBoot ==
    \/ Next
    \/ BootStart
    \/ BootSetupDriver
    \/ BootCollectPage
    \/ BootScrapeOne
    \/ BootFinalSaveOpen
    \/ BootFinalSaveWrite

SpecBoot == Init /\ [][NextBoot]_vars

\* ------------------------------------------------------------ properties
\* The records a CSV file holds, and their Detail Page URLs.
FileUrls(file) == Urls(file.rows)

\* The keys of the records of the progress file as it stands; a file without
\* a header line holds no record.
ProgressKeys ==
    IF progressFile.exists /\ progressFile.cols THEN Range(FileUrls(progressFile)) ELSE {}

\* The run is a run of exibitor.py that follows a run killed in SCRAPING.
RestartedAfterKillInScraping ==
    /\ script = "exibitor"
    /\ prev.exit = "killed"
    /\ prev.phase = "SCRAPING"

\* The killed run had just completed a checkpoint write.
KilledAfterCheckpoint ==
    /\ prev.exit = "killed"
    /\ prev.phase = "SCRAPING"
    /\ prev.pc \in {"scrape", "final_save"}
    /\ prev.i > 0
    /\ prev.i % BatchSize = 0

\* C1: no two records of the progress file or of the final file of the
\* pipeline (exibitor.py) have the same Detail Page URL.
C1_UniqueSourceLinks ==
    /\ NoDup(FileUrls(progressFile))
    /\ NoDup(FileUrls(finalFile))

\* C2: every record of the progress file and of the final file has a Detail
\* Page URL that is a line of the link cache file.
C2_RecordsInLinkCache ==
    /\ Range(FileUrls(progressFile)) \subseteq Range(linksFile.lines)
    /\ Range(FileUrls(finalFile)) \subseteq Range(linksFile.lines)

\* C3: a run killed right after a checkpoint write and restarted to DONE
\* leaves the final file an uninterrupted run over the same links leaves.
C3_ResumeEqualsUninterrupted ==
    (script = "exibitor" /\ exit = "ok" /\ run.phase = "DONE" /\ KilledAfterCheckpoint)
        => finalFile = to_csv(FrameOf(ScrapeAll(all_exhibitor_links, failing)))

\* C4: after a kill in SCRAPING and a restart, no record that was in the
\* progress file before the killed run is missing from it, and fewer than
\* BatchSize of the detail pages the killed run fetched are fetched again.
C4_BoundedRework ==
    RestartedAfterKillInScraping
        => /\ prev.urlsBefore \subseteq Range(FileUrls(run.startProgress))
           /\ Cardinality({k \in 1..Len(run.fetched) : run.fetched[k] \in prev.fetched})
                  <= BatchSize - 1

\* The run started with a link cache and a progress file that holds a record
\* for every link of it.
StartedComplete ==
    /\ script = "exibitor"
    /\ run.cached
    /\ run.startProgress.exists /\ run.startProgress.cols
    /\ Range(run.startLinks.lines) \subseteq Range(FileUrls(run.startProgress))

\* C5: a run that starts with a link cache and a complete progress file
\* fetches no listing page and no detail page, leaves the link cache and the
\* progress file as they were, and ends with the final file it found or, if
\* there was none, with one record per record of the progress file.
C5_Idempotent ==
    StartedComplete
        => /\ run.listing = <<>>
           /\ run.fetched = <<>>
           /\ linksFile = run.startLinks
           /\ progressFile = run.startProgress
           /\ exit = "ok" =>
                IF run.startFinal.exists THEN finalFile = run.startFinal
                ELSE FileUrls(finalFile) = FileUrls(run.startProgress)

C5_Witness ==
    /\ StartedComplete
    /\ exit = "ok"
    /\ Len(run.startLinks.lines) >= BatchSize
    /\ run.finalWrites = 1

\* C6: the saved link cache holds every link once, also a link that two
\* listing pages list.
C6_LinkSetHasNoDuplicates ==
    (linksFile.exists /\ pc \notin {"save_links", "save_links_write"})
        => NoDup(linksFile.lines)

\* The positions of `links` whose link is not in `keys`, and the number of
\* them up to position j.
PendingPositions(links, keys) == {k \in 1..Len(links) : links[k] \notin keys}
PendingRank(links, keys, j) == Cardinality({m \in PendingPositions(links, keys) : m <= j})

\* C7: in LINKS_READY, once the progress is loaded, the pending sequence is
\* the LinkSet without the links that are keys of the progress file, in the
\* order of the LinkSet.
C7_PendingIsOrderedDifference ==
    (script = "exibitor" /\ pc \in {"nothing_pending", "setup_scrape"})
        => LET keys == ProgressKeys
               positions == PendingPositions(all_exhibitor_links, keys)
           IN  /\ Len(urls_to_scrape) = Cardinality(positions)
               /\ \A j \in positions :
                    urls_to_scrape[PendingRank(all_exhibitor_links, keys, j)]
                        = all_exhibitor_links[j]

C7_Witness ==
    /\ script = "exibitor" /\ pc = "setup_scrape"
    /\ Len(urls_to_scrape) >= 2
    /\ Len(all_exhibitor_links) - Len(urls_to_scrape) = BatchSize

\* C8: with a progress file that exists and does not parse, startup goes on
\* with no processed link, no prior record and every link pending.
C8_UnparsableProgressIsEmpty ==
    (script = "exibitor" /\ pc \in {"nothing_pending", "setup_scrape"}
       /\ progressFile.exists /\ ~progressFile.cols)
        => /\ exit = "running"
           /\ scraped_urls = {}
           /\ exhibitors_df = EmptyFrame
           /\ urls_to_scrape = all_exhibitor_links

C8_Witness ==
    /\ script = "exibitor" /\ pc = "setup_scrape"
    /\ progressFile.exists /\ ~progressFile.cols
    /\ Len(urls_to_scrape) >= BatchSize

\* C9: a run that finds a link cache left by an interrupted save treats it
\* as absent and runs the link discovery.
C9_CorruptCacheIsRediscovered ==
    (script = "exibitor" /\ prev.exit = "killed" /\ prev.pc = "save_links_write")
        => ~run.cached

\* C10: in NOTHING_PENDING the run creates no fetch handle for detail pages,
\* fetches no detail page, leaves the progress file alone, writes the final
\* file once with the loaded records if it did not exist and leaves it as it
\* is otherwise, and ends normally.
C10_NothingPending ==
    (script = "exibitor" /\ run.phase = "NOTHING_PENDING")
        => /\ run.handles = (IF run.cached THEN 0 ELSE 1)
           /\ run.fetched = <<>>
           /\ run.progressWrites = 0
           /\ progressFile = run.startProgress
           /\ exit \in {"running", "ok"}
           /\ exit = "ok" =>
                IF run.startFinal.exists
                THEN finalFile = run.startFinal /\ run.finalWrites = 0
                ELSE /\ run.finalWrites = 1
                     /\ finalFile = to_csv(get_existing_data(progressFile)[2])

C10_Witness ==
    /\ script = "exibitor" /\ run.phase = "NOTHING_PENDING"
    /\ exit = "ok"
    /\ run.finalWrites = 1
    /\ Len(finalFile.rows) >= BatchSize

\* The records the run has appended to the frame it loaded.
AppendedRows == SubSeq(exhibitors_df.rows, Len(run.loaded.rows) + 1, Len(exhibitors_df.rows))

\* Number of positions of s that hold x.
Count(s, x) == Cardinality({k \in 1..Len(s) : s[k] = x})

\* C11: every pending link the scrape loop has processed has exactly one
\* record among the records the run appended and was fetched once; the
\* record of a link whose fetch failed is N/A in every field but the URL.
C11_OneRecordPerPendingLink ==
    (script = "exibitor" /\ run.phase \in {"SCRAPING", "DONE"})
        => \A l \in Range(SubSeq(urls_to_scrape, 1, i)) :
             /\ Count(Urls(AppendedRows), l) = 1
             /\ Count(run.fetched, l) = 1
             /\ l \in failing =>
                  \A k \in 1..Len(AppendedRows) :
                    AppendedRows[k].url = l => AppendedRows[k] = Record(NA, NA, NA, NA, l)

RECURSIVE LinksOfPages(_, _, _)
\* The links of the listing pages `pages` in order, a page whose fetch
\* failed (oks[k] false) giving none.
LinksOfPages(pages, oks, site_overlap) ==
    IF pages = <<>> THEN <<>>
    ELSE (IF Head(oks) THEN get_exhibitor_links(Head(pages), site_overlap, TRUE) ELSE <<>>)
         \o LinksOfPages(Tail(pages), Tail(oks), site_overlap)

\* C12: a discovery run fetches the listing pages 1, 2, ... in this order,
\* each once, and all TOTAL_PAGES of them whichever fetches fail; the links
\* collected are those of the pages fetched with success, in page order.
C12_EveryListingPageOnce ==
    (script = "exibitor" /\ ~run.cached /\ run.phase # "NONE")
        => /\ run.listing = [k \in 1..Len(run.listing) |-> k]
           /\ pc = "collect" => Len(run.listing) = page - 1 /\ page <= TOTAL_PAGES
           /\ (pc \in {"save_links", "save_links_write"} \/ run.phase # "INIT")
                  => Len(run.listing) = TOTAL_PAGES
           /\ all_exhibitor_links = LinksOfPages(run.listing, run.listingOk, overlap)

C12_Witness ==
    /\ script = "exibitor" /\ pc = "save_links"
    /\ run.listingOk[1] /\ ~run.listingOk[2] /\ run.listingOk[TOTAL_PAGES]
    /\ Len(all_exhibitor_links) >= 2 * PerPage

\* Every field of the row that the detail page of its link does not give
\* holds the marker N/A.
AbsentIsNA(row) ==
    LET data == scrape_exhibitor_detail(row.url, failing)
    IN  /\ data.name = NA => row.name = NA
        /\ data.web = NA => row.web = NA
        /\ data.booth = NA => row.booth = NA
        /\ data.contact = NA => row.contact = NA

\* C13: in the progress file and in the final file every absent field value
\* is the marker N/A, also in the records a run loaded from the progress file
\* and wrote out again.
C13_AbsentValuesAreNA ==
    /\ \A k \in 1..Len(progressFile.rows) : AbsentIsNA(progressFile.rows[k])
    /\ \A k \in 1..Len(finalFile.rows) : AbsentIsNA(finalFile.rows[k])

\* C14: a run that ends because setup_driver() failed has made no network
\* request, listing page or detail page, before the failure.
C14_SetupFailureBeforeAnyRequest ==
    (script = "exibitor" /\ exit = "fail")
        => run.requestsAtFail = 0 /\ run.listing = <<>> /\ run.fetched = <<>>

\* The element texts a selector strategy can give on a detail page.
PageTexts == {NoElement, " ", " Acme Solar ", "Borealis"}

\* The strategies whose first element has text after trimming.
Yielding(texts) == {k \in DOMAIN texts : texts[k] # NoElement /\ Strip(texts[k]) # ""}

\* The trimmed text of the first yielding strategy, N/A when there is none.
FirstYield(texts) ==
    IF Yielding(texts) = {} THEN NA
    ELSE Strip(texts[CHOOSE k \in Yielding(texts) : \A m \in Yielding(texts) : k <= m])

\* The record `row` of a detail page that loaded holds what the extractors
\* give on the page: name and booth from the first yielding strategy, each on
\* its own.
ExtractedFromPage(row) ==
    LET soup == DetailSoup(row.url)
    IN  row.url \notin failing
          => /\ row.name = FirstYield(soup.name)
             /\ row.booth = FirstYield(soup.booth)
             /\ row.web = extract_website(soup.web)
             /\ row.contact = extract_contact_info(soup.contact)

\* C15: extract_with_fallback returns the trimmed text of the first strategy
\* that yields one and N/A exactly when none does, for every three texts; in
\* a scraped record name and booth are so extracted from the page, each on
\* its own, and website and contact are what their extractors give.  The
\* first part does not read the state and is evaluated before the first run;
\* a record is looked at when it is the last one appended, and all records
\* of the run once more when the run is done.
C15_FallbackOrder ==
    /\ exit = "never" =>
         \A texts \in [1..3 -> PageTexts] :
           /\ extract_with_fallback(texts) = FirstYield(texts)
           /\ extract_with_fallback(texts) = NA <=> Yielding(texts) = {}
    /\ (script = "exibitor" /\ run.phase \in {"SCRAPING", "DONE"}
          /\ Len(exhibitors_df.rows) > Len(run.loaded.rows))
         => ExtractedFromPage(exhibitors_df.rows[Len(exhibitors_df.rows)])
    /\ (script = "exibitor" /\ run.phase = "DONE" /\ exit = "ok")
         => \A k \in (Len(run.loaded.rows) + 1)..Len(exhibitors_df.rows) :
              ExtractedFromPage(exhibitors_df.rows[k])

\* A record whose name comes from the second strategy and a record without
\* name and with a booth have been scraped.
C15_Witness ==
    /\ script = "exibitor" /\ run.phase = "SCRAPING"
    /\ \E k \in 1..Len(AppendedRows) :
         /\ AppendedRows[k].url \notin failing
         /\ DetailSoup(AppendedRows[k].url).name[1] = NoElement
         /\ AppendedRows[k].name = "Borealis"
    /\ \E k \in 1..Len(AppendedRows) :
         /\ AppendedRows[k].url \notin failing
         /\ AppendedRows[k].name = NA
         /\ AppendedRows[k].booth = "Tent 3"

\* Number of checkpoint writes the scrape loop has completed after i records.
CheckpointsDone ==
    IF pc \in {"checkpoint", "checkpoint_write"} THEN (i \div BatchSize) - 1
    ELSE i \div BatchSize

\* C16: in SCRAPING the progress file has been written once for every
\* multiple of BatchSize among the record counts 1..i and at no other count;
\* after a checkpoint it holds the loaded records followed by the records of
\* the run up to that count, in append order, and so every record the
\* progress file held before.  The keys are compared in every state, the
\* whole content in the states that follow a checkpoint write.
C16_CheckpointCadenceAndContent ==
    (script = "exibitor" /\ run.phase \in {"SCRAPING", "DONE"})
        => /\ run.progressWrites = CheckpointsDone
           /\ pc \in {"checkpoint", "checkpoint_write"} => i > 0 /\ i % BatchSize = 0
           /\ pc = "scrape" => i < Len(urls_to_scrape)
           /\ pc # "checkpoint_write" =>
                IF CheckpointsDone = 0 THEN progressFile = run.startProgress
                ELSE /\ FileUrls(progressFile) =
                          Urls(run.loaded.rows)
                              \o SubSeq(urls_to_scrape, 1, BatchSize * CheckpointsDone)
                     /\ Range(FileUrls(run.startProgress)) \subseteq Range(FileUrls(progressFile))
           /\ (pc \in {"scrape", "final_save"} /\ i > 0 /\ i % BatchSize = 0) =>
                     /\ progressFile =
                          to_csv(FrameOf(run.loaded.rows
                              \o [k \in 1..(BatchSize * CheckpointsDone) |->
                                     scrape_exhibitor_detail(urls_to_scrape[k], failing)]))
                     /\ progressFile = to_csv(exhibitors_df)

C16_Witness ==
    /\ script = "exibitor" /\ pc = "final_save"
    /\ Len(run.loaded.rows) >= BatchSize
    /\ run.progressWrites = 1
    /\ Len(progressFile.rows) = 2 * BatchSize

\* C17: a run that finds the link cache fetches no listing page, does not
\* write the link cache, which stays as the run found it, and works on the
\* cached links in the cached order.
C17_CachedLinksUsedVerbatim ==
    (script = "exibitor" /\ run.cached)
        => /\ run.listing = <<>>
           /\ run.linksWrites = 0
           /\ linksFile = run.startLinks
           /\ all_exhibitor_links = run.startLinks.lines

C17_Witness ==
    /\ script = "exibitor" /\ run.cached
    /\ exit = "ok" /\ run.phase = "DONE"
    /\ Len(all_exhibitor_links) >= BatchSize

\* C18: in a discovery run the link cache exists only once every listing
\* page has been attempted, and whenever it exists it holds the whole list of
\* discovered links; it is written once.
C18_LinkCacheAllOrNothing ==
    (script = "exibitor" /\ ~run.cached /\ run.phase # "NONE")
        => /\ run.linksWrites <= 1
           /\ linksFile.exists
                => /\ Len(run.listing) = TOTAL_PAGES
                   /\ linksFile.lines = all_exhibitor_links

\* C19: when a run of exibitor.py has written the final file, in DONE or in
\* NOTHING_PENDING, every link of the run's link list is the Detail Page URL
\* of a record of the final file.
C19_FinalCoversLinkSet ==
    (script = "exibitor" /\ exit = "ok" /\ run.finalWrites > 0)
        => /\ run.finalWrites = 1
           /\ Range(all_exhibitor_links) \subseteq Range(FileUrls(finalFile))

\* A run that loaded some records, met failing detail pages and wrote the
\* final file after its scrape loop.
C19_Witness ==
    /\ script = "exibitor" /\ exit = "ok" /\ run.phase = "DONE"
    /\ run.finalWrites = 1
    /\ Len(run.loaded.rows) > 0
    /\ \E l \in Range(urls_to_scrape) : l \in failing
    /\ Len(all_exhibitor_links) >= BatchSize

C19_WitnessNothingPending ==
    /\ script = "exibitor" /\ exit = "ok" /\ run.phase = "NOTHING_PENDING"
    /\ run.finalWrites = 1
    /\ Len(all_exhibitor_links) >= BatchSize

\* The run of exibitor.py has processed every pending link and written the
\* final file.
ReachedDone == script = "exibitor" /\ exit = "ok" /\ run.phase = "DONE"

\* The pending links of a run of exibitor.py started on the files as they are.
PendingOfNextRun ==
    FilterScraped(load_links_from_file(linksFile).links, get_existing_data(progressFile)[1])

\* C20 as stated: after DONE the progress file holds a record for every link,
\* so that a following run has nothing pending.
C20_ProgressCompleteAfterDone ==
    ReachedDone
        => /\ Range(all_exhibitor_links) \subseteq ProgressKeys
           /\ PendingOfNextRun = <<>>

\* C20 amended: after DONE over p pending links the progress file is the last
\* checkpoint, which holds the loaded records and the records of the first
\* p - (p mod 10) pending links (it is untouched when p < 10), and is covered
\* by the final file; a following run pends only links of the last p mod 10,
\* and nothing when p is a multiple of 10.
C20_ProgressIsLastCheckpoint ==
    ReachedDone
        => LET p == Len(urls_to_scrape)
               done == p - (p % BatchSize)
           IN  /\ i = p
               /\ IF done = 0 THEN progressFile = run.startProgress
                  ELSE /\ progressFile.exists /\ progressFile.cols
                       /\ FileUrls(progressFile)
                            = Urls(run.loaded.rows) \o SubSeq(urls_to_scrape, 1, done)
               /\ ProgressKeys \subseteq Range(FileUrls(finalFile))
               /\ Range(PendingOfNextRun) \subseteq Range(SubSeq(urls_to_scrape, done + 1, p))
               /\ Len(PendingOfNextRun) <= p % BatchSize
               /\ p % BatchSize = 0 => PendingOfNextRun = <<>>

\* A run over more than one batch whose last batch is not full: the progress
\* file stays behind the final file.
C20_Witness ==
    /\ ReachedDone
    /\ Len(urls_to_scrape) > BatchSize
    /\ Len(urls_to_scrape) % BatchSize # 0
    /\ PendingOfNextRun # <<>>

\* A run over a whole number of batches: nothing is pending afterwards.
C20_WitnessFullBatches ==
    /\ ReachedDone
    /\ Len(urls_to_scrape) = 2 * BatchSize
    /\ PendingOfNextRun = <<>>

====
